---- MODULE Spec2Model ----
(***************************************************************************)
(* Pump selection (src/app.py): the form that collects the power override  *)
(* and the availability of every pump, the flow calculation step of a      *)
(* triggered run, and optimise_for_flow with its session memory            *)
(* (st.session_state.last_solution_hash / reset_selection).                *)
(*                                                                         *)
(* Numbers.  Python floats are modelled as records [k, v]: k = "fin" with  *)
(* an integer v, or one of the IEEE specials "nan", "pinf", "ninf"; the    *)
(* Python value None is k = "None".  Finite powers are counted in 1/200 kW *)
(* (so the tie tolerance 0.01 kW is 2) and finite flows in 1/100 m3/h.     *)
(* A pump id "File i_Pj" is the pair <<i, j>>; sorted() on the ids is the  *)
(* lexicographic order of the pairs.                                       *)
(***************************************************************************)
EXTENDS Integers, Sequences, FiniteSets, TLC

\* Number of pumps of the catalog that the form shows (the deployment has 12).
NumPumps == 2

\* ------------------------------------------------------------------ floats
Fin(n) == [k |-> "fin", v |-> n]
NaN    == [k |-> "nan", v |-> 0]
PInf   == [k |-> "pinf", v |-> 0]
NInf   == [k |-> "ninf", v |-> 0]
PyNone == [k |-> "None", v |-> 0]

IsNaN(a) == a.k = "nan"

\* a + b
FAdd(a, b) ==
    IF IsNaN(a) \/ IsNaN(b) THEN NaN
    ELSE IF a.k = "fin" /\ b.k = "fin" THEN Fin(a.v + b.v)
    ELSE IF a.k = "fin" THEN b
    ELSE IF b.k = "fin" THEN a
    ELSE IF a.k = b.k THEN a
    ELSE NaN

\* -a
FNeg(a) ==
    IF a.k = "fin" THEN Fin(0 - a.v)
    ELSE IF a.k = "pinf" THEN NInf
    ELSE IF a.k = "ninf" THEN PInf
    ELSE a

\* a - b
FSub(a, b) == FAdd(a, FNeg(b))

\* abs(a)
FAbs(a) ==
    IF a.k = "fin" THEN (IF a.v < 0 THEN Fin(0 - a.v) ELSE a)
    ELSE IF a.k = "ninf" THEN PInf
    ELSE a

FRank(a) == IF a.k = "ninf" THEN 0 ELSE IF a.k = "fin" THEN 1 ELSE 2

\* a < b (false when either side is nan)
FLt(a, b) ==
    /\ ~IsNaN(a)
    /\ ~IsNaN(b)
    /\ IF a.k = "fin" /\ b.k = "fin" THEN a.v < b.v ELSE FRank(a) < FRank(b)

\* a >= b (false when either side is nan)
FGe(a, b) == ~IsNaN(a) /\ ~IsNaN(b) /\ ~FLt(a, b)

\* a == b (false when either side is nan)
FEq(a, b) == ~IsNaN(a) /\ ~IsNaN(b) /\ a = b

\* a * num / den for finite positive num, den
FScale(a, num, den) ==
    IF a.k = "fin" THEN Fin((a.v * num) \div den) ELSE a

\* ----------------------------------------------------------------- catalog
\* Row order of the pump table: for file_num in 1..4, for pump_num in [3,1,2].
PumpOrder == <<3, 1, 2>>

Pids == [i \in 1..NumPumps |-> <<((i - 1) \div 3) + 1, PumpOrder[((i - 1) % 3) + 1]>>]

PidSet == {Pids[i] : i \in 1..NumPumps}

\* pump_specs[pid] = (nominal flow, nominal power)
pump_specs(pid) ==
    IF pid[2] = 1 THEN <<1500000, 760000>>
    ELSE IF pid[2] = 2 THEN <<900000, 480000>>
    ELSE <<1800000, 920000>>

\* str(nom_power): the initial text of the power field
StrNomPower(pid) ==
    IF pid[2] = 1 THEN "3800" ELSE IF pid[2] = 2 THEN "2400" ELSE "4600"

\* Texts the operator types into a power field.
Texts == {"3800", "0", "0.005", "-100", "nan", "inf", "abc"}

\* float(obs_p_str); "ValueError" stands for the exception
ParseFloat(s) ==
    CASE s = "4600"  -> Fin(920000)
      [] s = "3800"  -> Fin(760000)
      [] s = "2400"  -> Fin(480000)
      [] s = "0"     -> Fin(0)
      [] s = "0.005" -> Fin(1)
      [] s = "-100"  -> Fin(0 - 20000)
      [] s = "nan"   -> NaN
      [] s = "inf"   -> PInf
      [] OTHER       -> [k |-> "ValueError", v |-> 0]

\* Values of the target flow field (min_value 0): 0, 10000, 30000 m3/h.
Targets == {0, 1000000, 3000000}

\* Water temperature (deg C) and salinity (kg/m3) fields.
Temperatures == {20, 30}
Salinities == {35}

\* --------------------------------------------------------- hydraulic model
\* FIXED_HEAD, in m
FIXED_HEAD == 88

\* g, in cm/s2 (9.80665 m/s2)
g == 981

\* eta_pump_fixed, in percent
eta_pump_fixed == 81

\* HydroPowerCalculator.rho, in 1/10 kg/m3: 1000 - 0.2 * temperature + 0.8 * salinity
rho(temperature, salinity) == 10000 - 2 * temperature + 8 * salinity

\* HydroPowerCalculator._get_motor_efficiency, in 1/1000
\* (nominal_flow_m3h is a finite flow in 1/100 m3/h)
MotorEfficiency(nominal_flow_m3h) ==
    IF FLt(FAbs(FSub(nominal_flow_m3h, Fin(1800000))), Fin(10000)) THEN 971
    ELSE IF FLt(FAbs(FSub(nominal_flow_m3h, Fin(1500000))), Fin(10000)) THEN 965
    ELSE IF FLt(FAbs(FSub(nominal_flow_m3h, Fin(900000))), Fin(10000)) THEN 965
    ELSE 960

\* calculated_flow_m3h of one available pump: power_to_use_kw * 1000 * eta_total
\* / (rho * g * H) * 3600.  rgH is rho*g*H in 1/1000; one power unit is 5 W, so
\* the factor from power units to flow units is 5 * 3600 * eta_total / rgH,
\* kept in thousandths.
CalculatedFlow(power_to_use_kw, nom_flow, temperature, salinity) ==
    LET rgH       == rho(temperature, salinity) * g * FIXED_HEAD
        eta_total == eta_pump_fixed * MotorEfficiency(nom_flow)
        factor    == (eta_total * 5 * 3600) \div (rgH \div 1000)
    IN  IF rgH > 0 THEN FScale(power_to_use_kw, factor, 1000) ELSE Fin(0)

\* -------------------------------------------------------------- front end
\* One row of the form: parse the power text, fall back to the nominal power
\* on ValueError, keep an override only when it differs from the nominal power.
BuildRow(pid, obs_p_str, avail_flag) ==
    LET nom_flow  == Fin(pump_specs(pid)[1])
        nom_power == Fin(pump_specs(pid)[2])
        parsed    == ParseFloat(obs_p_str)
        obs_p     == IF parsed.k = "ValueError" THEN nom_power ELSE parsed
    IN  [nom_flow  |-> nom_flow,
         nom_power |-> nom_power,
         obs_flow  |-> PyNone,
         obs_power |-> IF FEq(obs_p, nom_power) THEN PyNone ELSE obs_p,
         avail     |-> avail_flag]

\* pump_data as the script builds it on every rerun
BuildPumpData(texts, flags) ==
    [pid \in PidSet |-> BuildRow(pid, texts[pid], flags[pid])]

\* Step 1 of a triggered run, for one pump
FlowStepRow(pump_info, temperature, salinity) ==
    IF pump_info.avail
    THEN LET power_to_use_kw ==
                 IF pump_info.obs_power.k # "None" THEN pump_info.obs_power
                 ELSE pump_info.nom_power
         IN  [pump_info EXCEPT
                 !.obs_flow  = CalculatedFlow(power_to_use_kw, pump_info.nom_flow,
                                              temperature, salinity),
                 !.obs_power = power_to_use_kw]
    ELSE [pump_info EXCEPT !.obs_flow = Fin(0), !.obs_power = Fin(0)]

\* Step 1 of a triggered run
FlowStep(pd, temperature, salinity) ==
    [pid \in PidSet |-> FlowStepRow(pd[pid], temperature, salinity)]

\* ------------------------------------------------------- optimise_for_flow
\* Tie tolerance 0.01 kW
Tol == 2

\* d["obs_flow"] if d["obs_flow"] is not None else d["nom_flow"]
EffFlow(d) == IF d.obs_flow.k # "None" THEN d.obs_flow ELSE d.nom_flow

\* d["obs_power"] if d["obs_power"] is not None else d["nom_power"]
EffPower(d) == IF d.obs_power.k # "None" THEN d.obs_power ELSE d.nom_power

\* pids = [pid for pid, d in pump_data.items() if d["avail"]]
AvailPids(pd) == SelectSeq(Pids, LAMBDA pid : pd[pid].avail)

RECURSIVE SumNominalFlow(_, _, _)
\* Variant of total_available_flow that ignores the calculated flows
SumNominalFlow(ps, pd, i) ==
    IF i = 0 THEN Fin(0) ELSE FAdd(SumNominalFlow(ps, pd, i - 1), pd[ps[i]].nom_flow)

total_available_flow_Nominal(pd) ==
    SumNominalFlow(AvailPids(pd), pd, Len(AvailPids(pd)))

RECURSIVE SumFlow(_, _, _)
\* sum(...) of the effective flows of ps[1..i], left to right
SumFlow(ps, pd, i) ==
    IF i = 0 THEN Fin(0) ELSE FAdd(SumFlow(ps, pd, i - 1), EffFlow(pd[ps[i]]))

total_available_flow(pd) == SumFlow(AvailPids(pd), pd, Len(AvailPids(pd)))

\* The c-th tuple (c = 0, 1, ...) of itertools.product([0, 1], repeat=n)
ProductCombo(c, n) == [i \in 1..n |-> (c \div (2 ^ (n - i))) % 2]

RECURSIVE ComboFold_NominalPower(_, _, _, _)
\* Variant of ComboFold that adds up the nominal powers
ComboFold_NominalPower(combo, ps, pd, i) ==
    IF i = 0 THEN [pumps_on |-> <<>>, total_flow |-> Fin(0), total_power |-> Fin(0)]
    ELSE LET acc == ComboFold_NominalPower(combo, ps, pd, i - 1)
         IN  IF combo[i] = 0 THEN acc
             ELSE [pumps_on    |-> Append(acc.pumps_on, ps[i]),
                   total_flow  |-> FAdd(acc.total_flow, EffFlow(pd[ps[i]])),
                   total_power |-> FAdd(acc.total_power, pd[ps[i]].nom_power)]

RECURSIVE ComboFold(_, _, _, _)
\* The inner loop over zip(combo, pids), up to position i
ComboFold(combo, ps, pd, i) ==
    IF i = 0 THEN [pumps_on |-> <<>>, total_flow |-> Fin(0), total_power |-> Fin(0)]
    ELSE LET acc == ComboFold(combo, ps, pd, i - 1)
         IN  IF combo[i] = 0 THEN acc
             ELSE [pumps_on    |-> Append(acc.pumps_on, ps[i]),
                   total_flow  |-> FAdd(acc.total_flow, EffFlow(pd[ps[i]])),
                   total_power |-> FAdd(acc.total_power, EffPower(pd[ps[i]]))]

\* Every combination, in enumeration order
AllCombos(pd) ==
    LET ps == AvailPids(pd)
        n  == Len(ps)
    IN  [c \in 1..(2 ^ n) |-> ComboFold(ProductCombo(c - 1, n), ps, pd, n)]

\* Variant of Qualifies that keeps every combination with a finite flow
Qualifies_NoFlowCheck(c, target) == c.total_flow.k = "fin"

\* if F >= target_flow
Qualifies(c, target) == FGe(c.total_flow, target)

\* valid_combos before the sort
ValidCombos(pd, target) ==
    SelectSeq(AllCombos(pd), LAMBDA c : Qualifies(c, target))

\* Insert x in the sorted list s behind every element that is not greater
InsertByPower(s, x) ==
    LET before == {i \in 1..Len(s) : FLt(x.total_power, s[i].total_power)}
        pos    == IF before = {} THEN Len(s) + 1
                  ELSE CHOOSE i \in before : \A j \in before : i <= j
    IN  SubSeq(s, 1, pos - 1) \o <<x>> \o SubSeq(s, pos, Len(s))

RECURSIVE SortFold(_, _)
SortFold(s, i) == IF i = 0 THEN <<>> ELSE InsertByPower(SortFold(s, i - 1), s[i])

\* valid_combos.sort(key=lambda x: x["total_power"]): a stable sort
SortByPower(s) == SortFold(s, Len(s))

\* Variant of BestCombos without the tolerance filter
BestCombos_NoTolerance(valid_combos) == valid_combos

\* best_combos: the candidates within the tolerance of valid_combos[0]
BestCombos(valid_combos) ==
    LET min_power == valid_combos[1].total_power
    IN  SelectSeq(valid_combos,
                  LAMBDA c : FLt(FAbs(FSub(c.total_power, min_power)), Fin(Tol)))

\* pid order of sorted(): by file number, then by pump number
PidLess(a, b) == a[1] < b[1] \/ (a[1] = b[1] /\ a[2] < b[2])

\* tuple(sorted(pumps_on))
SortedTuple(pumps_on) ==
    LET S == {pumps_on[i] : i \in 1..Len(pumps_on)}
    IN  [i \in 1..Cardinality(S) |->
            CHOOSE x \in S : Cardinality({y \in S : PidLess(y, x)}) = i - 1]

\* hash(tuple(sorted(pumps_on))): the hash of a tuple of ids is taken to be
\* collision free, so the fingerprint is the sorted tuple itself
Fingerprint(pumps_on) == [none |-> FALSE, of |-> SortedTuple(pumps_on)]

\* the value None of last_solution_hash
NoHash == [none |-> TRUE, of |-> <<>>]

\* st.session_state[key] = value
Put(ss, key, value) ==
    [x \in DOMAIN ss \cup {key} |-> IF x = key THEN value ELSE ss[x]]

\* The returned values.  kind is "combo" for a success record, "insufficient_flow"
\* for the error record, "None" for the absent result, "IndexError" when
\* best_combos[0] raises, and "unset" while no run has produced a result.
Success(c) ==
    [kind |-> "combo", pumps_on |-> c.pumps_on, total_flow |-> c.total_flow,
     total_power |-> c.total_power, available_flow |-> PyNone]

InsufficientFlow(flow) ==
    [kind |-> "insufficient_flow", pumps_on |-> <<>>, total_flow |-> PyNone,
     total_power |-> PyNone, available_flow |-> flow]

Other(kind) ==
    [kind |-> kind, pumps_on |-> <<>>, total_flow |-> PyNone,
     total_power |-> PyNone, available_flow |-> PyNone]

\* ------------------------------------------------------------------- state
VARIABLES
    obs_p_str,       \* the text of every power field
    avail,           \* the value of every availability checkbox
    target_flow,     \* the value of the target flow field (finite, in 1/100 m3/h)
    pump_data,       \* pump_data of the last script run
    session_state,   \* st.session_state: the keys last_solution_hash, reset_selection
    res,             \* what the last call of optimise_for_flow returned
    ret_line,        \* the source line of the return statement it took (0: no call)
    enumerated,      \* how many combinations that call enumerated
    entry_state,     \* st.session_state when that call was entered
    caller           \* who made the last script step

vars == <<obs_p_str, avail, target_flow, pump_data, session_state, res,
          ret_line, enumerated, entry_state, caller>>

\* optimise_for_flow(pd, target, allow_random) entered with session state ss
optimise_for_flow(pd, target, allow_random, ss) ==
    /\ entry_state' = ss
    /\ IF FLt(total_available_flow(pd), target)
       THEN /\ res' = InsufficientFlow(total_available_flow(pd))
            /\ ret_line' = 281
            /\ enumerated' = 0
            /\ session_state' = ss
       ELSE LET valid_combos == SortByPower(ValidCombos(pd, target))
            IN  /\ enumerated' = Len(AllCombos(pd))
                /\ IF valid_combos = <<>>
                   THEN /\ res' = Other("None")
                        /\ ret_line' = 303
                        /\ session_state' = ss
                   ELSE LET best_combos == BestCombos(valid_combos)
                        IN  IF allow_random /\ Len(best_combos) > 1
                            THEN LET ss1 == IF "last_solution_hash" \notin DOMAIN ss
                                            THEN Put(ss, "last_solution_hash", NoHash)
                                            ELSE ss
                                 IN  IF "reset_selection" \in DOMAIN ss1
                                        /\ ss1["reset_selection"]
                                     THEN \E i \in 1..Len(best_combos) :
                                            LET selected == best_combos[i]
                                            IN  /\ session_state' =
                                                     Put(Put(ss1, "last_solution_hash",
                                                             Fingerprint(selected.pumps_on)),
                                                         "reset_selection", FALSE)
                                                /\ res' = Success(selected)
                                                /\ ret_line' = 318
                                     ELSE LET matches ==
                                                  SelectSeq(best_combos,
                                                      LAMBDA combo :
                                                          Fingerprint(combo.pumps_on)
                                                              = ss1["last_solution_hash"])
                                          IN  /\ session_state' = ss1
                                              /\ IF ~ss1["last_solution_hash"].none
                                                    /\ matches # <<>>
                                                 THEN /\ res' = Success(matches[1])
                                                      /\ ret_line' = 323
                                                 ELSE /\ res' = Success(best_combos[1])
                                                      /\ ret_line' = 324
                            ELSE /\ session_state' = ss
                                 /\ ret_line' = 326
                                 /\ IF best_combos = <<>>
                                    THEN res' = Other("IndexError")
                                    ELSE res' = Success(best_combos[1])

\* ------------------------------------------------------------------ actions
Init ==
    /\ obs_p_str = [pid \in PidSet |-> StrNomPower(pid)]
    /\ avail = [pid \in PidSet |-> TRUE]
    /\ target_flow = 3000000
    /\ pump_data = BuildPumpData(obs_p_str, avail)
    /\ session_state = [x \in {} |-> FALSE]
    /\ res = Other("unset")
    /\ ret_line = 0
    /\ enumerated = 0
    /\ entry_state = session_state
    /\ caller = "form"

\* A widget changed: the script reruns with calculate = False and only rebuilds
\* pump_data; nothing is optimised and no result is shown.
FormRerun ==
    /\ pump_data' = BuildPumpData(obs_p_str', avail')
    /\ res' = Other("unset")
    /\ ret_line' = 0
    /\ enumerated' = 0
    /\ caller' = "form"
    /\ UNCHANGED <<session_state, entry_state>>

\* The operator types s into the power field of pid
EditPower(pid, s) ==
    /\ s # obs_p_str[pid]
    /\ obs_p_str' = [obs_p_str EXCEPT ![pid] = s]
    /\ UNCHANGED <<avail, target_flow>>
    /\ FormRerun

\* The operator toggles the availability checkbox of pid
ToggleAvail(pid) ==
    /\ avail' = [avail EXCEPT ![pid] = ~avail[pid]]
    /\ UNCHANGED <<obs_p_str, target_flow>>
    /\ FormRerun

\* The operator enters the target flow t
SetTarget(t) ==
    /\ t # target_flow
    /\ target_flow' = t
    /\ UNCHANGED <<obs_p_str, avail>>
    /\ FormRerun

\* Variant of Calculate without the assignment reset_selection = True
Calculate_NoReset(temperature, salinity) ==
    /\ UNCHANGED <<obs_p_str, avail, target_flow>>
    /\ pump_data' = FlowStep(BuildPumpData(obs_p_str, avail), temperature, salinity)
    /\ caller' = "calculate"
    /\ optimise_for_flow(pump_data', Fin(target_flow), TRUE, session_state)

\* The calculate button: rebuild pump_data, step 1 (flows), reset_selection =
\* True, optimise_for_flow(pump_data, target_flow)
Calculate(temperature, salinity) ==
    /\ UNCHANGED <<obs_p_str, avail, target_flow>>
    /\ pump_data' = FlowStep(BuildPumpData(obs_p_str, avail), temperature, salinity)
    /\ caller' = "calculate"
    /\ optimise_for_flow(pump_data', Fin(target_flow), TRUE,
                         Put(session_state, "reset_selection", TRUE))

\* A run that makes no reset request: optimise_for_flow(pump_data, target_flow)
\* is called on the mapping of a run without reset_selection being touched by
\* the caller
RunWithoutReset(temperature, salinity) ==
    /\ UNCHANGED <<obs_p_str, avail, target_flow>>
    /\ pump_data' = FlowStep(BuildPumpData(obs_p_str, avail), temperature, salinity)
    /\ caller' = "direct"
    /\ optimise_for_flow(pump_data', Fin(target_flow), TRUE, session_state)

Next ==
    \/ \E pid \in PidSet : \E s \in Texts \cup {StrNomPower(pid)} : EditPower(pid, s)
    \/ \E pid \in PidSet : ToggleAvail(pid)
    \/ \E t \in Targets : SetTarget(t)
    \/ \E temperature \in Temperatures, salinity \in Salinities :
           Calculate(temperature, salinity)
    \/ \E temperature \in Temperatures, salinity \in Salinities :
           RunWithoutReset(temperature, salinity)

Spec == Init /\ [][Next]_vars

\* The script as the front end drives it: optimise_for_flow is only ever called
\* by the calculate button
NextFrontEnd ==
    \/ \E pid \in PidSet : \E s \in Texts \cup {StrNomPower(pid)} : EditPower(pid, s)
    \/ \E pid \in PidSet : ToggleAvail(pid)
    \/ \E t \in Targets : SetTarget(t)
    \/ \E temperature \in Temperatures, salinity \in Salinities :
           Calculate(temperature, salinity)

SpecFrontEnd == Init /\ [][NextFrontEnd]_vars

\* ------------------------------------------------- vocabulary of the claims
\* The last script step called optimise_for_flow
Ran == caller # "form"

\* The units whose availability flag is true
Available(pd) == {pid \in PidSet : pd[pid].avail}

\* The active set of a returned record
ActiveSet(r) == {r.pumps_on[i] : i \in 1..Len(r.pumps_on)}

RECURSIVE SetFlow(_, _)
\* Sum of the effective flows of the units of S
SetFlow(S, pd) ==
    IF S = {} THEN Fin(0)
    ELSE LET x == CHOOSE y \in S : TRUE
         IN  FAdd(SetFlow(S \ {x}, pd), EffFlow(pd[x]))

RECURSIVE SetPower(_, _)
\* Sum of the effective powers of the units of S
SetPower(S, pd) ==
    IF S = {} THEN Fin(0)
    ELSE LET x == CHOOSE y \in S : TRUE
         IN  FAdd(SetPower(S \ {x}, pd), EffPower(pd[x]))

\* The subsets of the available units whose total flow reaches the target
QualifyingSets(pd, target) ==
    {S \in SUBSET Available(pd) : FGe(SetFlow(S, pd), target)}

\* The qualifying subsets within 0.01 kW of the minimum power
TiedSets(pd, target) ==
    LET Q == QualifyingSets(pd, target)
    IN  {S \in Q : \A R \in Q :
            FLt(FAbs(FSub(SetPower(S, pd), SetPower(R, pd))), Fin(2))
            \/ FLt(SetPower(S, pd), SetPower(R, pd))}

\* The candidates a run finds tied: none when its feasibility check fails
\* (nothing is enumerated then), else the qualifying subsets within 0.01 kW of
\* the minimum power
TiedCandidates(pd, target) ==
    IF FLt(SetFlow(Available(pd), pd), target) THEN {} ELSE TiedSets(pd, target)

C2_Infeasibility ==
    Ran =>
        /\ FLt(SetFlow(Available(pump_data), pump_data), Fin(target_flow)) =>
               /\ res = InsufficientFlow(SetFlow(Available(pump_data), pump_data))
               /\ enumerated = 0
               /\ session_state = entry_state
        /\ (Available(pump_data) = {} /\ target_flow > 0) =>
               /\ res.kind = "insufficient_flow"
               /\ res.available_flow = Fin(0)

\* An infeasible run with available units and a remembered fingerprint
C2_Witness ==
    /\ Ran
    /\ res.kind = "insufficient_flow"
    /\ Available(pump_data) # {}
    /\ "last_solution_hash" \in DOMAIN session_state
    /\ ~session_state["last_solution_hash"].none

\* C3 as stated: a run with target flow 0 returns a success record with the empty
\* active set and total power 0.
C3_TargetZeroEmptySet ==
    (Ran /\ target_flow = 0) =>
        /\ res.kind = "combo"
        /\ res.pumps_on = <<>>
        /\ res.total_power = Fin(0)

\* C4 as stated: a run whose caller makes no reset request, entered while the
\* remembered fingerprint is that of a set X that is among the tied candidates,
\* returns X.
C4_TieStability ==
    [][(/\ caller' = "direct"
        /\ "last_solution_hash" \in DOMAIN session_state
        /\ ~session_state["last_solution_hash"].none
        /\ \E X \in TiedCandidates(pump_data', Fin(target_flow')) :
               session_state["last_solution_hash"]
                   = Fingerprint(SelectSeq(Pids, LAMBDA pid : pid \in X)))
       => (/\ res'.kind = "combo"
           /\ Fingerprint(res'.pumps_on) = session_state["last_solution_hash"])]_vars

\* C5 as stated: a second press of the calculate button with unchanged inputs
\* returns the active set of the first.
C5_RepeatedRunsPreserveChoice ==
    [][(/\ caller = "calculate"
        /\ caller' = "calculate"
        /\ pump_data' = pump_data
        /\ target_flow' = target_flow
        /\ res.kind = "combo")
       => (res'.kind = "combo" /\ res'.pumps_on = res.pumps_on)]_vars

\* C6 as stated: when the available flow reaches the target some subset
\* qualifies, and every run ends in a success record or the infeasibility record.
C6_NoAbsentResult ==
    Ran =>
        /\ FGe(SetFlow(Available(pump_data), pump_data), Fin(target_flow)) =>
               QualifyingSets(pump_data, Fin(target_flow)) # {}
        /\ res.kind \in {"combo", "insufficient_flow"}

\* C7: a success record lists available units only, each once, and its totals
\* are the sums of the effective flows and powers of exactly those units.
C7_WellFormedSuccess ==
    res.kind = "combo" =>
        /\ \A i \in 1..Len(res.pumps_on) : pump_data[res.pumps_on[i]].avail
        /\ Cardinality(ActiveSet(res)) = Len(res.pumps_on)
        /\ res.total_flow = SetFlow(ActiveSet(res), pump_data)
        /\ res.total_power = SetPower(ActiveSet(res), pump_data)

\* A success record with active units, one of them overridden, beside an
\* unavailable unit
C7_Witness ==
    /\ res.kind = "combo"
    /\ \E pid \in PidSet : ~pump_data[pid].avail
    /\ \E pid \in ActiveSet(res) :
           pump_data[pid].obs_power # pump_data[pid].nom_power

\* C8 as stated: after the flow calculation step of a triggered run every
\* unit's effective flow and effective power are non-negative.
C8_NonNegativeInputs ==
    caller = "calculate" =>
        \A pid \in PidSet :
            /\ FGe(EffFlow(pump_data[pid]), Fin(0))
            /\ FGe(EffPower(pump_data[pid]), Fin(0))

\* C9 as stated: after a run in which more than one candidate was tied, the
\* remembered fingerprint is that of the returned active set.
C9_FingerprintSetOnEveryTie ==
    (Ran /\ res.kind = "combo"
         /\ Cardinality(TiedCandidates(pump_data, Fin(target_flow))) > 1) =>
        /\ "last_solution_hash" \in DOMAIN session_state
        /\ session_state["last_solution_hash"] = Fingerprint(res.pumps_on)

\* C10: when exactly one qualifying subset lies within 0.01 of the minimum
\* power, the outcome of a run is fixed by the unit mapping and the target alone,
\* whatever the session memory held on entry: the infeasibility record when the
\* available flow is below the target, and otherwise the success record of that
\* one subset (in table order).  So a re-run with identical inputs returns the
\* identical active set.
C10_NoTieDeterminism ==
    (Ran /\ Cardinality(TiedSets(pump_data, Fin(target_flow))) = 1) =>
        IF FLt(SetFlow(Available(pump_data), pump_data), Fin(target_flow))
        THEN res.kind = "insufficient_flow"
        ELSE /\ res.kind = "combo"
             /\ \A S \in TiedSets(pump_data, Fin(target_flow)) :
                    res.pumps_on = SelectSeq(Pids, LAMBDA pid : pid \in S)

\* A run without reset request, one candidate within the tolerance among several
\* qualifying ones, entered with the fingerprint of another set remembered
C10_Witness ==
    /\ caller = "direct"
    /\ target_flow > 0
    /\ res.kind = "combo"
    /\ Cardinality(TiedSets(pump_data, Fin(target_flow))) = 1
    /\ Cardinality(QualifyingSets(pump_data, Fin(target_flow))) > 1
    /\ "last_solution_hash" \in DOMAIN entry_state
    /\ ~entry_state["last_solution_hash"].none
    /\ entry_state["last_solution_hash"] # Fingerprint(res.pumps_on)

\* C11: when every run is a press of the calculate button, no run returns from
\* the fingerprint lookup (line 323) or from the first-candidate fallback (line
\* 324); a run that finds more than one candidate tied returns from the random
\* pick (line 318) with one of the tied candidates, the fingerprint of that
\* candidate remembered and reset_selection cleared.
C11_FrontEndAlwaysRandomPick ==
    Ran =>
        /\ ret_line \notin {323, 324}
        /\ Cardinality(TiedCandidates(pump_data, Fin(target_flow))) > 1 =>
               /\ ret_line = 318
               /\ res.kind = "combo"
               /\ ActiveSet(res) \in TiedCandidates(pump_data, Fin(target_flow))
               /\ "last_solution_hash" \in DOMAIN session_state
               /\ session_state["last_solution_hash"] = Fingerprint(res.pumps_on)
               /\ "reset_selection" \in DOMAIN session_state
               /\ session_state["reset_selection"] = FALSE

\* A press of the button met a tie while the fingerprint of another tied
\* candidate was remembered, and returned from the random pick
C11_Witness ==
    /\ caller = "calculate"
    /\ ret_line = 318
    /\ "last_solution_hash" \in DOMAIN entry_state
    /\ ~entry_state["last_solution_hash"].none
    /\ entry_state["last_solution_hash"] # Fingerprint(res.pumps_on)
    /\ \E X \in TiedCandidates(pump_data, Fin(target_flow)) :
           entry_state["last_solution_hash"]
               = Fingerprint(SelectSeq(Pids, LAMBDA pid : pid \in X))

====
